---- MODULE Spec2Model ----
(***************************************************************************)
(* finddd: the matchers of finddd/match.py and Finder.find of              *)
(* finddd/find.py.                                                         *)
(*                                                                         *)
(* Strings are sequences of one-character strings, so that lower(),        *)
(* startswith(), "in", fnmatch and Path.suffix are computed.  An           *)
(* Optional[int] is the empty set (None) or a singleton {v}.               *)
(***************************************************************************)
EXTENDS Integers, Sequences, FiniteSets

VARIABLES
    pc,         \* position of the operation under way
    sm,         \* SizeMatcher: its constructor arguments, then its fields
    size_in,    \* st_size of the path last given to SizeMatcher.match
    sm_res,     \* what SizeMatcher.match returned
    fm,         \* FilenameMather: its constructor arguments, then its fields
    name_in,    \* path.name last given to FilenameMather.match
    fm_res,     \* what FilenameMather.match returned
    mrm_max,    \* MaxResultMatcher.max
    mrm_count,  \* MaxResultMatcher._count
    evals,      \* the match() calls made on the MaxResultMatcher, in order
    matchers,   \* MultiMatcher.matchers of the combinator under test
    entry,      \* the path last given to MultiMatcher.match
    mm_pre,     \* _count when that match() call began
    mm_res,     \* its outcome: result, raised, the predicates it invoked
    cfg,        \* Finder attributes and find() arguments
    nmm,        \* find(): the descent combinator's matchers
    err,        \* find(): the exception that ended the call, if any
    listed,     \* find(): the directories os.walk has listed
    files,      \* find(): the accumulated matches
    calls       \* find(): the paths the callback was invoked on

vars == <<pc, sm, size_in, sm_res, fm, name_in, fm_res, mrm_max, mrm_count,
          evals, matchers, entry, mm_pre, mm_res, cfg, nmm, err, listed,
          files, calls>>

sizeVars == <<sm, size_in, sm_res>>
nameVars == <<fm, name_in, fm_res>>
budgetVars == <<mrm_max, mrm_count, evals>>
multiVars == <<matchers, entry, mm_pre, mm_res>>
findVars == <<cfg, nmm, err, listed, files, calls>>

----------------------------------------------------------------------------
(* Bounds *)

MaxSize == 3
MaxLen == 2
MaxCap == 2
MaxCalls == 4
MaxPreds == 3

----------------------------------------------------------------------------
(* Python values *)

None == {}

Optional(S) == {None} \cup {{v} : v \in S}

Val(o) == CHOOSE v \in o : TRUE

\* bool(o) of an Optional[int]: None and 0 are falsy
Truthy(o) == o # None /\ o # {0}

Chars == {"a", "A", "*", "?"}

LowerChar(c) == IF c = "A" THEN "a" ELSE c

\* str.lower()
Lower(s) == [i \in DOMAIN s |-> LowerChar(s[i])]

\* str.startswith(".")
StartsWithDot(s) == Len(s) > 0 /\ s[1] = "."

\* p in s
Contains(p, s) ==
    \E i \in 0..(Len(s) - Len(p)) : SubSeq(s, i + 1, i + Len(p)) = p

RECURSIVE GlobFrom(_, _, _, _)
\* fnmatch.fnmatch(s, p) from positions i of p and j of s; "*" and "?" are
\* the wildcards, every other character stands for itself
GlobFrom(p, i, s, j) ==
    IF i > Len(p) THEN j > Len(s)
    ELSE IF p[i] = "*"
         THEN GlobFrom(p, i + 1, s, j)
              \/ (j <= Len(s) /\ GlobFrom(p, i, s, j + 1))
         ELSE /\ j <= Len(s)
              /\ (p[i] = "?" \/ p[i] = s[j])
              /\ GlobFrom(p, i + 1, s, j + 1)

fnmatch(s, p) == GlobFrom(p, 1, s, 1)

RECURSIVE LastDot(_, _)
\* str.rfind(".") over positions 1..i; 0 when there is none
LastDot(s, i) ==
    IF i = 0 THEN 0 ELSE IF s[i] = "." THEN i ELSE LastDot(s, i - 1)

\* Path.suffix: from the last dot of the name, unless that dot leads the
\* name or ends it
Suffix(s) ==
    LET d == LastDot(s, Len(s))
    IN IF d > 1 /\ d < Len(s) THEN SubSeq(s, d, Len(s)) ELSE <<>>

----------------------------------------------------------------------------
(* Paths.  An entry is [parts, kind, size]: Path.parts below the search    *)
(* root's parent, "d" or "f", and st_size.                                 *)

Name(e) == e.parts[Len(e.parts)]

----------------------------------------------------------------------------
(* match.py: the leaf predicates *)

\* FilenameMather.__init__ with a str pattern and a mode other than FMM_RE
FilenameMather_init(pattern, ignore_case, mode) ==
    [k |-> "Filename",
     pattern |-> IF ignore_case THEN Lower(pattern) ELSE pattern,
     mode |-> mode,
     ignore_case |-> ignore_case]

\* FilenameMather.match: name is lower-cased into a local the comparisons
\* do not read; each of them reads path.name
FilenameMather_match(m, pathname) ==
    LET name == IF m.ignore_case THEN Lower(pathname) ELSE pathname
    IN CASE m.mode = "FMM_EXACT" -> pathname = m.pattern
         [] m.mode = "FMM_STR" -> Contains(m.pattern, pathname)
         [] m.mode = "FMM_GLOB" -> fnmatch(pathname, m.pattern)

\* SizeMatcher.__init__: the three asserts
SizeMatcher_init_ok(min, max, within) ==
    within => (min # None /\ max # None /\ Val(min) < Val(max))

\* SizeMatcher.match on a path of st_size s
SizeMatcher_match(m, s) ==
    IF m.within THEN Val(m.min) < s /\ s < Val(m.max)
    ELSE IF Truthy(m.min) THEN s > Val(m.min)
    ELSE IF Truthy(m.max) THEN s < Val(m.max)
    ELSE TRUE

\* HiddenMatcher.match
HiddenMatcher_match(m, pathname) ==
    IF m.hidden THEN TRUE ELSE ~StartsWithDot(pathname)

\* SuffixMatcher.__init__: empty suffixes dropped, a leading dot added
SuffixMatcher_init(suffixes) ==
    [k |-> "Suffix",
     suffixes |-> {IF StartsWithDot(suffixes[i]) THEN suffixes[i]
                   ELSE <<".">> \o suffixes[i] :
                   i \in {j \in DOMAIN suffixes : suffixes[j] # <<>>}}]

\* SuffixMatcher.match
SuffixMatcher_match(m, pathname) ==
    IF m.suffixes # {} THEN Suffix(pathname) \in m.suffixes ELSE TRUE

\* DepthMatcher.match: the depth of path below cur
Depth(m, parts) == Len(parts) - Len(m.cur)

\* DepthMatcher.match once its assert has passed
DepthMatcher_match(m, parts) ==
    LET depth == Depth(m, parts)
    IN IF m.exact # None THEN Val(m.exact) = depth
       ELSE IF m.min # None THEN depth > Val(m.min)
       ELSE IF m.max # None THEN depth < Val(m.max)
       ELSE TRUE

\* MaxResultMatcher.match: the result and the new _count
MaxResultMatcher_match_le(max, count) ==
    IF max > 0 THEN [ok |-> count <= max, count |-> count + 1]
    ELSE [ok |-> TRUE, count |-> count]

MaxResultMatcher_match(max, count) ==
    IF max > 0 THEN [ok |-> count < max, count |-> count + 1]
    ELSE [ok |-> TRUE, count |-> count]

----------------------------------------------------------------------------
(* match.py: evaluation of a matcher on an entry.  The outcome is          *)
(* [r, exc, c, mr, n]: the value returned, the exception raised ("none"),  *)
(* _count afterwards, the results of the MaxResultMatcher.match calls      *)
(* made, and for a combinator the number of its matchers it invoked.       *)

Ret(r, c, mr) == [r |-> r, exc |-> "none", c |-> c, mr |-> mr, n |-> 0]

Raise(x, c) == [r |-> FALSE, exc |-> x, c |-> c, mr |-> <<>>, n |-> 0]

\* FileTypeMatcher.match on a directory or a regular file: any() over the
\* requested kinds, in order.  "x" raises; "l", "s" and "p" test the mode
\* stat() gives, false of both; a key fns lacks gets the default, a lambda
\* of one parameter called with none.  ("e" is not among the kinds drawn.)
RECURSIVE FileTypeAny(_, _, _)
FileTypeAny(types, i, e) ==
    IF i > Len(types) THEN "F"
    ELSE CASE types[i] = "x" -> "NotImplementedError"
           [] types[i] = "d" /\ e.kind = "d" -> "T"
           [] types[i] = "f" /\ e.kind = "f" -> "T"
           [] types[i] \in {"d", "f", "l", "s", "p"} ->
                 FileTypeAny(types, i + 1, e)
           [] OTHER -> "TypeError"

RECURSIVE Eval(_, _, _)
RECURSIVE AllMatch(_, _, _, _)
RECURSIVE AllMatchEager(_, _, _, _)

\* all(i.match(path) for i in ms[i..]): stops at the first falsy result,
\* and an exception ends it
AllMatch(ms, i, e, c) ==
    IF i > Len(ms) THEN [Ret(TRUE, c, <<>>) EXCEPT !.n = i - 1]
    ELSE LET x == Eval(ms[i], e, c)
         IN IF x.exc # "none" \/ ~x.r THEN [x EXCEPT !.n = i]
            ELSE LET rest == AllMatch(ms, i + 1, e, x.c)
                 IN [rest EXCEPT !.mr = x.mr \o rest.mr]

\* the same without the short circuit: every matcher is invoked
AllMatchEager(ms, i, e, c) ==
    IF i > Len(ms) THEN [Ret(TRUE, c, <<>>) EXCEPT !.n = i - 1]
    ELSE LET x == Eval(ms[i], e, c)
         IN IF x.exc # "none" THEN [x EXCEPT !.n = i]
            ELSE LET rest == AllMatchEager(ms, i + 1, e, x.c)
                 IN [rest EXCEPT !.mr = x.mr \o rest.mr,
                                 !.r = x.r /\ rest.r]

MultiMatcher_match_eager(ms, e, c) ==
    IF ms # <<>> THEN AllMatchEager(ms, 1, e, c)
    ELSE Ret(TRUE, c, <<>>)

\* MultiMatcher.match
MultiMatcher_match(ms, e, c) ==
    IF ms # <<>> THEN AllMatch(ms, 1, e, c)
    ELSE Ret(TRUE, c, <<>>)

\* Matcher.match of each class
Eval(m, e, c) ==
    CASE m.k = "Nop" -> Ret(TRUE, c, <<>>)
      [] m.k = "Not" ->
            LET x == Eval(m.matcher, e, c)
            IN IF x.exc # "none" THEN x ELSE [x EXCEPT !.r = ~x.r, !.n = 0]
      [] m.k = "Filename" -> Ret(FilenameMather_match(m, Name(e)), c, <<>>)
      [] m.k = "Size" -> Ret(SizeMatcher_match(m, e.size), c, <<>>)
      [] m.k = "Hidden" -> Ret(HiddenMatcher_match(m, Name(e)), c, <<>>)
      [] m.k = "IgnoreFile" -> Raise("NotImplementedError", c)
      [] m.k = "FileType" ->
            IF m.types = <<>> THEN Ret(TRUE, c, <<>>)
            ELSE LET a == FileTypeAny(m.types, 1, e)
                 IN IF a \in {"T", "F"} THEN Ret(a = "T", c, <<>>)
                    ELSE Raise(a, c)
      [] m.k = "Suffix" -> Ret(SuffixMatcher_match(m, Name(e)), c, <<>>)
      [] m.k = "Depth" ->
            IF Depth(m, e.parts) < 0 THEN Raise("AssertionError", c)
            ELSE Ret(DepthMatcher_match(m, e.parts), c, <<>>)
      [] m.k = "MaxResult" ->
            LET x == MaxResultMatcher_match(m.max, c)
            IN Ret(x.ok, x.count, <<x.ok>>)
      [] m.k = "Multi" -> [MultiMatcher_match(m.matchers, e, c) EXCEPT !.n = 0]

----------------------------------------------------------------------------
(* Values of the variables an operation does not use *)

IdleSize ==
    /\ sm = [min |-> None, max |-> None, within |-> FALSE]
    /\ size_in = 0
    /\ sm_res = FALSE

IdleName ==
    /\ fm = FilenameMather_init(<<>>, FALSE, "FMM_STR")
    /\ name_in = <<>>
    /\ fm_res = FALSE

IdleBudget ==
    /\ mrm_max = 0
    /\ mrm_count = 0
    /\ evals = <<>>

IdleMulti ==
    /\ matchers = <<>>
    /\ entry = [parts |-> <<>>, kind |-> "f", size |-> 0]
    /\ mm_pre = 0
    /\ mm_res = Ret(TRUE, 0, <<>>)

IdleFind ==
    /\ cfg = [hidden |-> FALSE]
    /\ nmm = <<>>
    /\ err = "none"
    /\ listed = <<>>
    /\ files = <<>>
    /\ calls = <<>>

----------------------------------------------------------------------------
(* SizeMatcher: construction, then match() on paths of every size *)

InitSize ==
    /\ pc = "size_new"
    /\ sm \in [min : Optional(0..MaxSize), max : Optional(0..MaxSize),
               within : BOOLEAN]
    /\ size_in = 0
    /\ sm_res = FALSE
    /\ IdleName /\ IdleBudget /\ IdleMulti /\ IdleFind

\* SizeMatcher(min=, max=, within=)
SizeMatcher_init ==
    /\ pc = "size_new"
    /\ pc' = IF SizeMatcher_init_ok(sm.min, sm.max, sm.within)
             THEN "size_ready" ELSE "size_AssertionError"
    /\ UNCHANGED <<sizeVars, nameVars, budgetVars, multiVars, findVars>>

\* sm.match(path) with path.stat().st_size = s
SizeMatcher_call(s) ==
    /\ pc \in {"size_ready", "size_matched"}
    /\ size_in' = s
    /\ sm_res' = SizeMatcher_match(sm, s)
    /\ pc' = "size_matched"
    /\ UNCHANGED <<sm, nameVars, budgetVars, multiVars, findVars>>

NextSize == SizeMatcher_init \/ \E s \in 0..(MaxSize + 1) : SizeMatcher_call(s)

SpecSize == InitSize /\ [][NextSize]_vars

----------------------------------------------------------------------------
(* FilenameMather: construction with a str pattern in the modes exact,     *)
(* substring and glob, then match() on names                               *)

Strs == UNION {[1..n -> Chars] : n \in 0..MaxLen}

Modes == {"FMM_EXACT", "FMM_STR", "FMM_GLOB"}

InitName ==
    /\ pc = "name_new"
    /\ fm \in [k : {"Filename"}, pattern : Strs, mode : Modes,
               ignore_case : BOOLEAN]
    /\ name_in = <<>>
    /\ fm_res = FALSE
    /\ IdleSize /\ IdleBudget /\ IdleMulti /\ IdleFind

\* FilenameMather(pattern, ignore_case=, mode=)
FilenameMather_new ==
    /\ pc = "name_new"
    /\ fm' = FilenameMather_init(fm.pattern, fm.ignore_case, fm.mode)
    /\ pc' = "name_ready"
    /\ UNCHANGED <<name_in, fm_res, sizeVars, budgetVars, multiVars, findVars>>

\* fm.match(path) with path.name = x
FilenameMather_call(x) ==
    /\ pc \in {"name_ready", "name_matched"}
    /\ name_in' = x
    /\ fm_res' = FilenameMather_match(fm, x)
    /\ pc' = "name_matched"
    /\ UNCHANGED <<fm, sizeVars, budgetVars, multiVars, findVars>>

NextName == FilenameMather_new \/ \E x \in Strs \ {<<>>} : FilenameMather_call(x)

SpecName == InitName /\ [][NextName]_vars

----------------------------------------------------------------------------
(* One MaxResultMatcher added last to two combinators, as find.py adds     *)
(* mrm to fmm and to dmm; match() calls arrive through either.             *)

N_a == <<"a">>
N_dot_a == <<".", "a">>
N_a_p == <<"a", ".", "p">>
N_r == <<"r">>

HiddenMatcher(hidden) == [k |-> "Hidden", hidden |-> hidden]

NotMatcher(m) == [k |-> "Not", matcher |-> m]

NopMatcher == [k |-> "Nop"]

IgnoreFileMatcher == [k |-> "IgnoreFile"]

MultiMatcher(ms) == [k |-> "Multi", matchers |-> ms]

MaxResultMatcher(max) == [k |-> "MaxResult", max |-> max]

SizeMatcher(min, max, within) ==
    [k |-> "Size", min |-> min, max |-> max, within |-> within]

\* the combinator the two share ahead of mrm: here a hidden-name predicate,
\* so that some entries are rejected before mrm is reached
BudgetCmm == MultiMatcher(<<HiddenMatcher(FALSE)>>)

\* dmm.add(cmm, mrm)
BudgetDmm == <<BudgetCmm, MaxResultMatcher(mrm_max)>>

\* fmm: size and suffix predicates, then fmm.add(cmm, mrm)
BudgetFmm ==
    <<SizeMatcher(None, None, FALSE), SuffixMatcher_init(<<<<"p">>>>),
      BudgetCmm, MaxResultMatcher(mrm_max)>>

BudgetEntries ==
    {[parts |-> <<N_r, n>>, kind |-> k, size |-> 1] :
        n \in {N_a, N_dot_a, N_a_p}, k \in {"d", "f"}}

InitBudget ==
    /\ pc = "budget"
    /\ mrm_max \in -1..MaxCap
    /\ mrm_count = 0
    /\ evals = <<>>
    /\ IdleSize /\ IdleName /\ IdleMulti /\ IdleFind

\* the combinator `via` evaluates e; evals gains the calls it made on mrm
BudgetMatch(via, ms, e) ==
    /\ pc = "budget"
    /\ Len(evals) < MaxCalls
    /\ LET x == MultiMatcher_match(ms, e, mrm_count)
       IN /\ mrm_count' = x.c
          /\ evals' = evals \o [i \in DOMAIN x.mr |->
                                   [via |-> via, ok |-> x.mr[i]]]
    /\ UNCHANGED <<pc, mrm_max, sizeVars, nameVars, multiVars, findVars>>

\* dmm.match(e)
DmmMatch == \E e \in BudgetEntries : BudgetMatch("dmm", BudgetDmm, e)

\* fmm.match(e)
FmmMatch == \E e \in BudgetEntries : BudgetMatch("fmm", BudgetFmm, e)

NextBudget == DmmMatch \/ FmmMatch

SpecBudget == InitBudget /\ [][NextBudget]_vars

----------------------------------------------------------------------------
(* A MultiMatcher built by add() and then asked to match *)

MultiPool ==
    {NopMatcher, NotMatcher(NopMatcher), HiddenMatcher(FALSE),
     IgnoreFileMatcher, MaxResultMatcher(mrm_max)}

MultiEntries ==
    {[parts |-> <<N_r, n>>, kind |-> "f", size |-> 1] : n \in {N_a, N_dot_a}}

InitMulti ==
    /\ pc = "multi"
    /\ mrm_max \in 0..1
    /\ mrm_count = 0
    /\ evals = <<>>
    /\ matchers = <<>>
    /\ entry \in MultiEntries
    /\ mm_pre = 0
    /\ mm_res = Ret(TRUE, 0, <<>>)
    /\ IdleSize /\ IdleName /\ IdleFind

\* mm.add(m); the one MaxResultMatcher is added at most once
MultiMatcher_add(m) ==
    /\ pc = "multi"
    /\ Len(matchers) < MaxPreds
    /\ m.k = "MaxResult" => \A i \in DOMAIN matchers : matchers[i] # m
    /\ matchers' = Append(matchers, m)
    /\ UNCHANGED <<pc, entry, mm_pre, mm_res, budgetVars, sizeVars, nameVars,
                   findVars>>

\* mm.match(e)
MultiMatcher_call(e) ==
    /\ pc \in {"multi", "multi_matched"}
    /\ mrm_count < MaxCalls
    /\ LET x == MultiMatcher_match(matchers, e, mrm_count)
       IN /\ mm_res' = x
          /\ mrm_count' = x.c
    /\ mm_pre' = mrm_count
    /\ entry' = e
    /\ pc' = "multi_matched"
    /\ UNCHANGED <<matchers, mrm_max, evals, sizeVars, nameVars, findVars>>

NextMulti ==
    \/ \E m \in MultiPool : MultiMatcher_add(m)
    \/ \E e \in MultiEntries : MultiMatcher_call(e)

SpecMulti == InitMulti /\ [][NextMulti]_vars

----------------------------------------------------------------------------
(* Finder.find over the tree root/{a.py, .hidden, sub/{b.go, c.py}}        *)

N_root == <<"r", "o", "o", "t">>
N_a_py == <<"a", ".", "p", "y">>
N_hidden == <<".", "h">>
N_sub == <<"s", "u", "b">>
N_b_go == <<"b", ".", "g", "o">>
N_c_py == <<"c", ".", "p", "y">>
N_py == <<"p", "y">>

RootParts == <<N_root>>

E_sub == [parts |-> <<N_root, N_sub>>, kind |-> "d", size |-> 0]
E_a_py == [parts |-> <<N_root, N_a_py>>, kind |-> "f", size |-> 1]
E_hidden == [parts |-> <<N_root, N_hidden>>, kind |-> "f", size |-> 1]
E_b_go == [parts |-> <<N_root, N_sub, N_b_go>>, kind |-> "f", size |-> 1]
E_c_py == [parts |-> <<N_root, N_sub, N_c_py>>, kind |-> "f", size |-> 1]

\* Finder.__init__ attributes and find()'s keyword arguments; the pattern
\* is "", self.exclude is [], the size, time and other depth arguments
\* keep their defaults
Configs ==
    [hidden : BOOLEAN, ignore_case : BOOLEAN, no_ignore : BOOLEAN,
     exclude : {<<>>, <<N_sub>>},
     filetypes : {<<>>, <<"f">>, <<"x">>},
     suffixes : {<<>>, <<N_py>>},
     depth_max : {None, {2}, {3}},
     max_result : 0..MaxCap]

\* whether a call passing the keyword arguments kwargs binds to a
\* signature whose keyword parameters are params
Accepts(params, kwargs) == kwargs \subseteq params

\* IgnoreFileMatcher.__init__(self): no parameter besides self
IgnoreFileMatcher_params == {}

Init ==
    /\ pc = "find_l47"
    /\ cfg \in Configs
    /\ nmm = <<>>
    /\ err = "none"
    /\ listed = <<>>
    /\ files = <<>>
    /\ calls = <<>>
    /\ IdleSize /\ IdleName /\ IdleBudget /\ IdleMulti

\* find.py 47-51: cmm, nmm, dmm, fmm = MultiMatcher()
Find_new_combinators ==
    /\ pc = "find_l47"
    /\ nmm' = <<>>
    /\ pc' = "find_l53"
    /\ UNCHANGED <<cfg, err, listed, files, calls, sizeVars, nameVars,
                   budgetVars, multiVars>>

\* find.py 53: nmm.add(HiddenMatcher(self.hidden))
Find_add_hidden ==
    /\ pc = "find_l53"
    /\ nmm' = Append(nmm, HiddenMatcher(cfg.hidden))
    /\ pc' = "find_l54"
    /\ UNCHANGED <<cfg, err, listed, files, calls, sizeVars, nameVars,
                   budgetVars, multiVars>>

\* find.py 54-63: nmm.add(*(NotMatcher(FilenameMather(i, mode=FMM_GLOB,
\* ignore_case=self.ignore_case)) for i in [*self.exclude, *exclude]))
Find_add_exclude ==
    /\ pc = "find_l54"
    /\ nmm' = nmm \o [i \in DOMAIN cfg.exclude |->
                        NotMatcher(FilenameMather_init(cfg.exclude[i],
                                                       cfg.ignore_case,
                                                       "FMM_GLOB"))]
    /\ pc' = "find_l64"
    /\ UNCHANGED <<cfg, err, listed, files, calls, sizeVars, nameVars,
                   budgetVars, multiVars>>

\* find.py 64: nmm.add(IgnoreFileMatcher(enable=self.no_ignore)).  The call
\* passes the keyword enable; when the constructor does not take it the
\* call raises TypeError, which find() does not catch.  IgnoreFileMatcher's
\* __init__ takes no keyword, so lines 66-100 (the rest of the assembly,
\* the walk and the dispatch) are never executed.
Find_add_ignore ==
    /\ pc = "find_l64"
    /\ IF Accepts(IgnoreFileMatcher_params, {"enable"})
       THEN /\ nmm' = Append(nmm, IgnoreFileMatcher)
            /\ pc' = "find_l66"
            /\ err' = err
       ELSE /\ nmm' = nmm
            /\ pc' = "find_raised"
            /\ err' = "TypeError"
    /\ UNCHANGED <<cfg, listed, files, calls, sizeVars, nameVars, budgetVars,
                   multiVars>>

Next ==
    \/ Find_new_combinators
    \/ Find_add_hidden
    \/ Find_add_exclude
    \/ Find_add_ignore

Spec == Init /\ [][Next]_vars

----------------------------------------------------------------------------
(* Properties *)

Min(a, b) == IF a < b THEN a ELSE b

Range(q) == {q[i] : i \in DOMAIN q}

\* the orderings of a sequence
Perms(q) ==
    {[i \in DOMAIN q |-> q[f[i]]] :
        f \in {g \in [DOMAIN q -> DOMAIN q] : Range(g) = DOMAIN q}}

\* C1: through one MaxResultMatcher of cap N > 0 the first N match() calls, in
\* evaluation order and whichever combinator made them, return true and
\* every later call returns false; with a cap <= 0 every call returns true.
C1_ResultBudget ==
    \A i \in DOMAIN evals : evals[i].ok = (mrm_max <= 0 \/ i <= mrm_max)

\* C1's case: more calls than the cap, made through both combinators.
C1_Witness ==
    /\ mrm_max > 0
    /\ Len(evals) > mrm_max
    /\ \E i, j \in DOMAIN evals : evals[i].via = "dmm" /\ evals[j].via = "fmm"
    /\ ~evals[Len(evals)].ok

\* whether the i-th predicate of the combinator, asked alone, matches entry
C6_Passes(i) ==
    LET x == Eval(matchers[i], entry, mm_pre)
    IN x.exc = "none" /\ x.r

\* C6: MultiMatcher(L).match(E) is true iff every predicate of L matches E
\* (true for the empty L); the predicates are invoked in insertion order up
\* to and including the first that does not match, none after it; and no
\* reordering of L changes the boolean returned.
C6_CombinatorAnd ==
    pc = "multi_matched" =>
        /\ (mm_res.exc = "none" /\ mm_res.r)
               <=> (\A i \in DOMAIN matchers : C6_Passes(i))
        /\ mm_res.n = IF \E i \in DOMAIN matchers : ~C6_Passes(i)
                      THEN CHOOSE i \in DOMAIN matchers :
                               /\ ~C6_Passes(i)
                               /\ \A j \in 1..(i - 1) : C6_Passes(j)
                      ELSE Len(matchers)
        /\ \A q \in Perms(matchers) :
               LET y == MultiMatcher_match(q, entry, mm_pre)
               IN (y.exc = "none" /\ mm_res.exc = "none") => y.r = mm_res.r

\* C6's case: a rejection stopped the evaluation before the last predicate,
\* the MaxResultMatcher among those left out.
C6_Witness ==
    /\ pc = "multi_matched"
    /\ mm_res.exc = "none" /\ ~mm_res.r
    /\ mm_res.n < Len(matchers)
    /\ \E i \in (mm_res.n + 1)..Len(matchers) : matchers[i].k = "MaxResult"
    /\ mrm_max > 0 /\ mrm_count = mm_pre

\* C8: SizeMatcher.match is min < s < max with within set, s > min with only
\* min given, s < max with only max given, true with no bound; for every
\* bound, 0 included.
C8_SizePredicate ==
    pc = "size_matched" =>
        CASE sm.within -> sm_res = (Val(sm.min) < size_in /\ size_in < Val(sm.max))
          [] ~sm.within /\ sm.min # None /\ sm.max = None ->
                sm_res = (size_in > Val(sm.min))
          [] ~sm.within /\ sm.min = None /\ sm.max # None ->
                sm_res = (size_in < Val(sm.max))
          [] ~sm.within /\ sm.min = None /\ sm.max = None -> sm_res
          [] OTHER -> TRUE

\* the case-sensitive comparison of each mode
C9_Sensitive(mode, p, x) ==
    CASE mode = "FMM_EXACT" -> x = p
      [] mode = "FMM_STR" -> Contains(p, x)
      [] mode = "FMM_GLOB" -> fnmatch(x, p)

\* C9: with ignore_case set and mode exact, substring or glob, the result is
\* the case-sensitive result of that mode on the lower-cased pattern and the
\* lower-cased base name.  (fm.pattern is the pattern as the constructor
\* stored it; lower-casing it again gives lower(P).)
C9_IgnoreCase ==
    (pc = "name_matched" /\ fm.ignore_case) =>
        fm_res = C9_Sensitive(fm.mode, Lower(fm.pattern), Lower(name_in))

----------------------------------------------------------------------------
(* Properties of find() *)

FindEnded == pc \in {"find_returned", "find_raised"}

\* the directory listing order of the tree: sub-directories, then the
\* other entries, the root's before sub's
Discovery == <<E_sub, E_a_py, E_hidden, E_b_go, E_c_py>>

\* the descent criteria on a base name: not hidden (unless hidden entries
\* are shown) and matching no exclusion glob
DescentName(n) ==
    /\ HiddenMatcher_match(HiddenMatcher(cfg.hidden), n)
    /\ \A i \in DOMAIN cfg.exclude :
           ~FilenameMather_match(
               FilenameMather_init(cfg.exclude[i], cfg.ignore_case, "FMM_GLOB"), n)

\* the directory holding e is the root or a directory the walk descends into
Visited(e) == \A k \in 2..(Len(e.parts) - 1) : DescentName(e.parts[k])

\* e passes every criterion but the result cap
OtherFilters(e) ==
    LET ft == Eval([k |-> "FileType", types |-> cfg.filetypes], e, 0)
        dm == [k |-> "Depth", cur |-> RootParts, exact |-> None, min |-> None,
               max |-> cfg.depth_max]
    IN /\ DescentName(Name(e))
       /\ ft.exc = "none" /\ ft.r
       /\ DepthMatcher_match(dm, e.parts)
       /\ e.kind = "f" => SuffixMatcher_match(SuffixMatcher_init(cfg.suffixes), Name(e))

\* C2: with max_result = N > 0, after the walk the accumulated list holds the
\* first min(N, K) of the K entries of the visited directories that pass
\* every other filter, directories and files together, in discovery order.
C2_CrossStreamCap ==
    (FindEnded /\ cfg.max_result > 0) =>
        LET Pass(e) == Visited(e) /\ OtherFilters(e)
            cands == SelectSeq(Discovery, Pass)
        IN files = [i \in 1..Min(cfg.max_result, Len(cands)) |-> cands[i].parts]

\* the search of the end-to-end example: suffix py, hidden entries not
\* shown, depth-max 2, everything else at its default
C3_Example ==
    cfg = [hidden |-> FALSE, ignore_case |-> FALSE, no_ignore |-> TRUE,
           exclude |-> <<>>, filetypes |-> <<>>, suffixes |-> <<N_py>>,
           depth_max |-> {2}, max_result |-> 0]

\* a search with every option at its default
C3_Defaults ==
    cfg = [hidden |-> FALSE, ignore_case |-> FALSE, no_ignore |-> TRUE,
           exclude |-> <<>>, filetypes |-> <<>>, suffixes |-> <<>>,
           depth_max |-> None, max_result |-> 0]

\* C3: find() with default options over an existing root completes and the
\* callback receives exactly the entries that satisfy the criteria; in the
\* end-to-end example those are exactly root/a.py and root/sub/c.py.
C3_EndToEnd ==
    (FindEnded /\ (C3_Defaults \/ C3_Example)) =>
        /\ err = "none"
        /\ C3_Defaults =>
               Range(calls) = {E_sub.parts, E_a_py.parts, E_b_go.parts,
                               E_c_py.parts}
        /\ C3_Example => Range(calls) = {E_a_py.parts, E_c_py.parts}

\* the search asks for ignore-file support or for the executable kind
C7_Requested ==
    ~cfg.no_ignore \/ \E i \in DOMAIN cfg.filetypes : cfg.filetypes[i] = "x"

\* C7: a search that requests a capability-gapped feature ends with the
\* not-implemented error before any directory is listed or any entry is
\* accumulated; a search that requests neither does not end with it.
C7_FailFast ==
    FindEnded =>
        /\ C7_Requested =>
               (err = "NotImplementedError" /\ listed = <<>> /\ files = <<>>)
        /\ ~C7_Requested => err # "NotImplementedError"

\* C10: the walk ends having listed exactly once every directory below the
\* root that passes the descent criteria together with all its ancestors
\* below the root.
C10_WalkCompleteness ==
    FindEnded =>
        \A d \in {E_sub} :
            (\A k \in 2..Len(d.parts) : DescentName(d.parts[k])) =>
                Cardinality({i \in DOMAIN listed : listed[i] = d.parts}) = 1

====
